---- MODULE Spec2Model ----
(***************************************************************************)
(* scikit-learn-to-cpp: random_forest_to_cpp.py and adaboost_to_cpp.py.     *)
(*                                                                         *)
(* The two generators walk the arrays of a fitted sklearn tree             *)
(* (tree_.threshold, tree_.feature, tree_.children_left,                   *)
(* tree_.children_right, tree_.value) and print C++ text.  The model keeps *)
(* the printed text as a sequence of lines and runs it with the meaning    *)
(* C++ gives to it, so that what the generators print and what the printed *)
(* program computes are two separate things.                               *)
(*                                                                         *)
(* Numbers.  Counts and probabilities are exact fractions <<n, d>>.        *)
(* Logarithms and the SAMME scores are fixed point integers, Unit to 1.0.  *)
(***************************************************************************)
EXTENDS Integers, Sequences, FiniteSets, TLC

VARIABLES mode, pickle, forest, pc, hFile, cppFile,
          feature_vector, votes, probas, contribs, outcome, answer

vars == <<mode, pickle, forest, pc, hFile, cppFile,
          feature_vector, votes, probas, contribs, outcome, answer>>

(***************************************************************************)
(* Bounds of the model.                                                    *)
(***************************************************************************)
\* largest number of trees in an ensemble
MaxTrees == 2
\* largest number of training samples counted in one leaf of a single-leaf tree
MaxSamples == 3

\* number of classes of the modelled classifiers (length of value[node][0])
Classes == {0, 1}
\* thresholds a split may carry; -2 is also sklearn's marker in leaf nodes
Thresholds == {-2, 0}
\* feature indices a split may test
Features == {0, 1}
\* feature vectors handed to the emitted classifier: of length 1, where
\* feature 1 is out of range, and of length 2
FeatureValues == {-2, 0, 1}
FeatureVectors ==
    {<<a>> : a \in FeatureValues} \cup
    {<<a, b>> : a \in {-2, 1}, b \in FeatureValues}

(***************************************************************************)
(* Exact fractions, standing for the float64 entries of tree_.value.       *)
(***************************************************************************)
RECURSIVE GCD(_, _)
GCD(a, b) == IF b = 0 THEN a ELSE GCD(b, a % b)

NaN == <<0, 0>>
Zero == <<0, 1>>
One == <<1, 1>>

Frac(n, d) ==
    IF d = 0 THEN NaN
    ELSE LET g == GCD(n, d) IN IF g = 0 THEN Zero ELSE <<n \div g, d \div g>>

FracAdd(a, b) == Frac(a[1] * b[2] + b[1] * a[2], a[2] * b[2])
\* a / b; 0.0 / 0.0 is NaN as in numpy
FracDiv(a, b) == Frac(a[1] * b[2], a[2] * b[1])
FracLess(a, b) == a[1] * b[2] < b[1] * a[2]

\* number of entries of a 0-based array
Size(a) == Cardinality(DOMAIN a)

RECURSIVE SumUpTo(_, _)
\* a[0] + ... + a[n-1]
SumUpTo(a, n) == IF n = 0 THEN Zero ELSE FracAdd(SumUpTo(a, n - 1), a[n - 1])

(***************************************************************************)
(* The fitted trees: sklearn's parallel arrays, nodes numbered in preorder *)
(* from 0.  A leaf has threshold -2, feature -2 and children -1.  value    *)
(* has one row per node (n_outputs = 1) holding the class counts of the    *)
(* training samples that reach the node, so a split holds the sum of its   *)
(* children.                                                               *)
(***************************************************************************)
Row(c) == [o \in {0} |-> [k \in DOMAIN c |-> <<c[k], 1>>]]
Plus(c1, c2) == [k \in DOMAIN c1 |-> c1[k] + c2[k]]

LeafTree(c) ==
    [threshold |-> [n \in {0} |-> -2],
     feature |-> [n \in {0} |-> -2],
     children_left |-> [n \in {0} |-> -1],
     children_right |-> [n \in {0} |-> -1],
     value |-> [n \in {0} |-> Row(c)]]

Stump(f, t, cl, cr) ==
    [threshold |-> [n \in 0..2 |-> IF n = 0 THEN t ELSE -2],
     feature |-> [n \in 0..2 |-> IF n = 0 THEN f ELSE -2],
     children_left |-> [n \in 0..2 |-> IF n = 0 THEN 1 ELSE -1],
     children_right |-> [n \in 0..2 |-> IF n = 0 THEN 2 ELSE -1],
     value |-> [n \in 0..2 |->
                  IF n = 0 THEN Row(Plus(cl, cr)) ELSE IF n = 1 THEN Row(cl) ELSE Row(cr)]]

\* root split; left child a leaf; right child a split with two leaves
RightNested(f0, t0, c1, f2, t2, c3, c4) ==
    [threshold |-> [n \in 0..4 |-> IF n = 0 THEN t0 ELSE IF n = 2 THEN t2 ELSE -2],
     feature |-> [n \in 0..4 |-> IF n = 0 THEN f0 ELSE IF n = 2 THEN f2 ELSE -2],
     children_left |-> [n \in 0..4 |-> IF n = 0 THEN 1 ELSE IF n = 2 THEN 3 ELSE -1],
     children_right |-> [n \in 0..4 |-> IF n = 0 THEN 2 ELSE IF n = 2 THEN 4 ELSE -1],
     value |-> [n \in 0..4 |->
                  CASE n = 0 -> Row(Plus(c1, Plus(c3, c4)))
                    [] n = 1 -> Row(c1)
                    [] n = 2 -> Row(Plus(c3, c4))
                    [] n = 3 -> Row(c3)
                    [] n = 4 -> Row(c4)]]

\* root split; left child a split with two leaves; right child a leaf
LeftNested(f0, t0, f1, t1, c2, c3, c4) ==
    [threshold |-> [n \in 0..4 |-> IF n = 0 THEN t0 ELSE IF n = 1 THEN t1 ELSE -2],
     feature |-> [n \in 0..4 |-> IF n = 0 THEN f0 ELSE IF n = 1 THEN f1 ELSE -2],
     children_left |-> [n \in 0..4 |-> IF n = 0 THEN 1 ELSE IF n = 1 THEN 2 ELSE -1],
     children_right |-> [n \in 0..4 |-> IF n = 0 THEN 4 ELSE IF n = 1 THEN 3 ELSE -1],
     value |-> [n \in 0..4 |->
                  CASE n = 0 -> Row(Plus(c4, Plus(c2, c3)))
                    [] n = 1 -> Row(Plus(c2, c3))
                    [] n = 2 -> Row(c2)
                    [] n = 3 -> Row(c3)
                    [] n = 4 -> Row(c4)]]

RECURSIVE Total(_, _)
Total(c, n) == IF n = 0 THEN 0 ELSE Total(c, n - 1) + c[n - 1]

\* class-count vectors with at most m samples
Counts(m) == {c \in [Classes -> 0..m] : Total(c, Cardinality(Classes)) <= m}
\* the leaves of the trees that have splits: empty, or one sample of one class
SmallCounts == {c \in [Classes -> {0, 1}] : Total(c, Cardinality(Classes)) <= 1}

LeafTrees == {LeafTree(c) : c \in Counts(MaxSamples)}

Stumps ==
    {Stump(f, t, cl, cr) : f \in Features, t \in Thresholds,
                           cl \in SmallCounts, cr \in SmallCounts}

SplitChoices == Features \X Thresholds
LeafChoices == SmallCounts \X SmallCounts \X SmallCounts

NestedTrees ==
    {RightNested(a[1], a[2], l[1], b[1], b[2], l[2], l[3]) :
        a \in SplitChoices, b \in SplitChoices, l \in LeafChoices}
    \cup
    {LeftNested(a[1], a[2], b[1], b[2], l[1], l[2], l[3]) :
        a \in SplitChoices, b \in SplitChoices, l \in LeafChoices}

\* the ensembles handed to the generators: any number of single-leaf trees up
\* to MaxTrees (none included), copies of one stump, and single deeper trees
Forests ==
    UNION {[1..n -> LeafTrees] : n \in 0..MaxTrees}
    \cup {[i \in 1..n |-> t] : n \in 1..(MaxTrees + 1), t \in Stumps}
    \cup {<<t>> : t \in NestedTrees}

(***************************************************************************)
(* The printed C++ text, one record per line.  sp is the indentation the   *)
(* generators print in front of the line ("spaces*' '").                    *)
(***************************************************************************)
IfLine(spaces, f, t) == [op |-> "if", sp |-> spaces, f |-> f, t |-> t]
CloseLine(spaces) == [op |-> "}", sp |-> spaces]
ElseLine(spaces) == [op |-> "else", sp |-> spaces]
ReturnLine(spaces, v) == [op |-> "return", sp |-> spaces, v |-> v]

(***************************************************************************)
(* random_forest_to_cpp.py                                                 *)
(***************************************************************************)
RECURSIVE ArgmaxFrom(_, _, _)
\* numpy argmax over the flattened row: the first index holding the maximum
ArgmaxFrom(row, k, best) ==
    IF k = Size(row) THEN best
    ELSE ArgmaxFrom(row, k + 1, IF FracLess(row[best], row[k]) THEN k ELSE best)

argmax(value) == ArgmaxFrom(value[0], 0, 0)

RECURSIVE forest_branch(_, _, _)
forest_branch(tree, node, spaces) ==
    IF tree.threshold[node] # -2
    THEN <<IfLine(spaces, tree.feature[node], tree.threshold[node])>>
         \o (IF tree.children_left[node] # -1
             THEN forest_branch(tree, tree.children_left[node], spaces + 4)
             ELSE <<>>)
         \o <<CloseLine(spaces), ElseLine(spaces)>>
         \o (IF tree.children_right[node] # -1
             THEN forest_branch(tree, tree.children_right[node], spaces + 4)
             ELSE <<>>)
         \o <<CloseLine(spaces)>>
    ELSE <<ReturnLine(spaces, argmax(tree.value[node]))>>

forest_one_tree(tree, number) ==
    [kind |-> "tree", number |-> number, body |-> forest_branch(tree, 0, 4)]

forest_prediction_function(number_of_trees, number_of_classes) ==
    [kind |-> "predict", number |-> number_of_trees, classes |-> number_of_classes,
     tree_functions |-> [i \in 0..(number_of_trees - 1) |-> i]]

\* the .h file: the guard and includes, one function per tree, the declaration
forest_header(f) ==
    <<[kind |-> "prologue"]>>
    \o [i \in 1..Len(f) |-> forest_one_tree(f[i], i - 1)]
    \o <<[kind |-> "declaration"], [kind |-> "endif"]>>

(***************************************************************************)
(* adaboost_to_cpp.py                                                      *)
(***************************************************************************)
\* the division without the replacement of a zero sum by 1.0
normalise_unguarded(proba) ==
    LET sums == [o \in DOMAIN proba |-> SumUpTo(proba[o], Size(proba[o]))]
    IN [o \in DOMAIN proba |->
          [k \in DOMAIN proba[o] |-> FracDiv(proba[o][k], sums[o])]]

\* proba is one node's value, shape (1, K); the result is written into proba
normalise(proba) ==
    LET sums == [o \in DOMAIN proba |-> SumUpTo(proba[o], Size(proba[o]))]
        normalizer == [o \in DOMAIN proba |-> IF sums[o] = Zero THEN One ELSE sums[o]]
    IN [o \in DOMAIN proba |->
          [k \in DOMAIN proba[o] |-> FracDiv(proba[o][k], normalizer[o])]]

\* the entries printed between the braces of 'std::vector<float> {...}'
transform_to_vector(node) == normalise(node)[0]

RECURSIVE adaboost_branch(_, _, _)
\* code: the printed lines; tree: the tree afterwards.  tree.tree_.value[node]
\* is a view of the tree's array and normalise divides it in place.
adaboost_branch(tree, node, spaces) ==
    IF tree.threshold[node] # -2
    THEN LET l == IF tree.children_left[node] # -1
                  THEN adaboost_branch(tree, tree.children_left[node], spaces + 4)
                  ELSE [code |-> <<>>, tree |-> tree]
             r == IF tree.children_right[node] # -1
                  THEN adaboost_branch(l.tree, tree.children_right[node], spaces + 4)
                  ELSE [code |-> <<>>, tree |-> l.tree]
         IN [code |-> <<IfLine(spaces, tree.feature[node], tree.threshold[node])>>
                      \o l.code
                      \o <<CloseLine(spaces), ElseLine(spaces)>>
                      \o r.code
                      \o <<CloseLine(spaces)>>,
             tree |-> r.tree]
    ELSE [code |-> <<ReturnLine(spaces, transform_to_vector(tree.value[node]))>>,
          tree |-> [tree EXCEPT !.value[node] = normalise(@)]]

adaboost_one_tree(tree, number) ==
    LET b == adaboost_branch(tree, 0, 4)
    IN [chunk |-> [kind |-> "tree", number |-> number, body |-> b.code],
        tree |-> b.tree]

adaboost_prediction_function(number_of_trees, number_of_classes) ==
    [kind |-> "predict", number |-> number_of_trees, classes |-> number_of_classes,
     tree_functions |-> [i \in 0..(number_of_trees - 1) |-> i]]

adaboost_header(f) ==
    <<[kind |-> "prologue"]>>
    \o [i \in 1..Len(f) |-> adaboost_one_tree(f[i], i - 1).chunk]
    \o <<[kind |-> "declaration"], [kind |-> "endif"]>>

\* the length of the first tree's leaf vector, plus one
class_count(f) == Size(f[1].value[0][0]) + 1

(***************************************************************************)
(* The generators as steps of the program.                                 *)
(***************************************************************************)
Init ==
    /\ mode \in {"forest", "adaboost"}
    /\ pickle \in Forests
    /\ forest = pickle
    /\ pc = "start"
    /\ hFile = <<>>
    /\ cppFile = <<>>
    /\ feature_vector = <<>>
    /\ votes = <<>>
    /\ probas = <<>>
    /\ contribs = <<>>
    /\ outcome = "none"
    /\ answer = -1

\* random_forest_to_cpp(forest): both files are opened with 'w' and written in
\* order; forest[0] of an empty ensemble raises IndexError after the header
\* and the include line are out
random_forest_to_cpp ==
    /\ mode = "forest"
    /\ pc \in {"start", "saved"}
    /\ hFile' = forest_header(forest)
    /\ IF Len(forest) = 0
       THEN /\ cppFile' = <<[kind |-> "include"]>>
            /\ pc' = "IndexError"
       ELSE /\ cppFile' = <<[kind |-> "include"],
                            forest_prediction_function(Len(forest), class_count(forest))>>
            /\ pc' = "saved"
    /\ UNCHANGED <<mode, pickle, forest, feature_vector, votes, probas, contribs,
                   outcome, answer>>

adaboost_to_cpp ==
    /\ mode = "adaboost"
    /\ pc \in {"start", "saved"}
    /\ hFile' = adaboost_header(forest)
    /\ forest' = [i \in 1..Len(forest) |-> adaboost_one_tree(forest[i], i - 1).tree]
    /\ IF Len(forest) = 0
       THEN /\ cppFile' = <<[kind |-> "include"]>>
            /\ pc' = "IndexError"
       ELSE /\ cppFile' = <<[kind |-> "include"],
                            adaboost_prediction_function(Len(forest), class_count(forest))>>
            /\ pc' = "saved"
    /\ UNCHANGED <<mode, pickle, feature_vector, votes, probas, contribs,
                   outcome, answer>>

(***************************************************************************)
(* The emitted C++ program.                                                *)
(***************************************************************************)
\* operator[] in place of at: no range check, some value comes back
at_unchecked(vector, index) ==
    [ok |-> TRUE, v |-> IF index < Len(vector) THEN vector[index + 1] ELSE 0]

\* std::vector::at: the element, or std::out_of_range
at(vector, index) ==
    IF index < Len(vector)
    THEN [ok |-> TRUE, v |-> vector[index + 1]]
    ELSE [ok |-> FALSE]

\* the "else {" line that belongs to the if printed on line i
MatchElse(body, i) ==
    CHOOSE j \in (i + 1)..Len(body) :
        /\ body[j].op = "else" /\ body[j].sp = body[i].sp
        /\ \A k \in (i + 1)..(j - 1) : ~(body[k].op = "else" /\ body[k].sp = body[i].sp)

\* the "}" line that closes the else printed on line i
MatchClose(body, i) ==
    CHOOSE j \in (i + 1)..Len(body) :
        /\ body[j].op = "}" /\ body[j].sp = body[i].sp
        /\ \A k \in (i + 1)..(j - 1) : ~(body[k].op = "}" /\ body[k].sp = body[i].sp)

RECURSIVE Exec(_, _, _)
\* run the body of one emitted tree function from line i
Exec(body, i, x) ==
    IF i > Len(body) THEN [kind |-> "no_return"]
    ELSE CASE body[i].op = "if" ->
                LET a == at(x, body[i].f)
                IN IF ~a.ok THEN [kind |-> "out_of_range"]
                   ELSE IF a.v <= body[i].t
                        THEN Exec(body, i + 1, x)
                        ELSE Exec(body, MatchElse(body, i) + 1, x)
           [] body[i].op = "return" -> [kind |-> "return", v |-> body[i].v]
           [] body[i].op = "}" ->
                IF i < Len(body) /\ body[i + 1].op = "else" /\ body[i + 1].sp = body[i].sp
                THEN Exec(body, MatchClose(body, i + 1) + 1, x)
                ELSE Exec(body, i + 1, x)
           [] body[i].op = "else" -> Exec(body, i + 1, x)

\* the function the table entry tree_functions[i] points to, applied to x
tree_call(i, x) ==
    LET p == cppFile[2]
        k == CHOOSE k \in 1..Len(hFile) :
                 hFile[k].kind = "tree" /\ hFile[k].number = p.tree_functions[i]
    IN Exec(hFile[k].body, 1, x)

(***************************************************************************)
(* int random_forest(std::vector<T> feature_vector)                        *)
(***************************************************************************)
RECURSIVE forest_votes(_, _)
\* the first loop, after trees 0..i-1: pred and the labels the trees returned
forest_votes(x, i) ==
    IF i = 0
    THEN [kind |-> "return", pred |-> [c \in 0..(cppFile[2].classes - 1) |-> 0],
          votes |-> <<>>]
    ELSE LET prev == forest_votes(x, i - 1)
         IN IF prev.kind # "return" THEN prev
            ELSE LET r == tree_call(i - 1, x)
                 IN IF r.kind # "return" THEN [prev EXCEPT !.kind = r.kind]
                    ELSE [prev EXCEPT !.pred[r.v] = @ + 1,
                                      !.votes = Append(@, r.v)]

\* the comparison written >=
forest_greater_or_equal(share, value) == ~FracLess(share, value)

\* pred[i] > value
forest_greater(share, value) == FracLess(value, share)

RECURSIVE forest_select(_, _, _, _, _)
\* the second loop from class i: pred[i] /= number, then the comparison
forest_select(pred, number, i, value, ans) ==
    IF i = Size(pred) THEN ans
    ELSE LET share == Frac(pred[i], number)
         IN IF forest_greater(share, value)
            THEN forest_select(pred, number, i + 1, share, i)
            ELSE forest_select(pred, number, i + 1, value, ans)

random_forest(x) ==
    LET number == cppFile[2].number
        v == forest_votes(x, number)
    IN IF v.kind # "return"
       THEN [outcome |-> v.kind, answer |-> -1, votes |-> v.votes]
       ELSE [outcome |-> "class",
             answer |-> forest_select(v.pred, number, 0, Zero, 0),
             votes |-> v.votes]

(***************************************************************************)
(* int adaboost(std::vector<T> feature_vector)                             *)
(***************************************************************************)
\* fixed point: Unit stands for 1.0f
Unit == 1000000
\* std::log(2.220446049250313e-16)
LogEpsilon == -36043653
\* std::log of 1, 2, 3, ...
LogTable == <<0, 693147, 1098612, 1386294, 1609438, 1791759, 1945910,
              2079442, 2197225, 2302585>>
\* std::numeric_limits<int>::min()
IntMin == -2147483647 - 1
\* what a read past the end of a std::vector<float> may find
Garbage == {-100 * Unit, 100 * Unit}

\* a / b rounded to the nearest representable value, b > 0
RoundDiv(a, b) == (2 * a + b) \div (2 * b)

log_proba(pred) ==
    [i \in DOMAIN pred |->
        IF pred[i][1] = 0 /\ pred[i][2] # 0
        THEN LogEpsilon
        ELSE LogTable[pred[i][1]] - LogTable[pred[i][2]]]

RECURSIVE Accumulate(_, _)
\* std::accumulate over a[0..n-1]
Accumulate(a, n) == IF n = 0 THEN 0 ELSE Accumulate(a, n - 1) + a[n - 1]

samme_proba(proba, num_classes) ==
    LET sum == RoundDiv(Accumulate(proba, Size(proba)), num_classes)
    IN [i \in DOMAIN proba |-> (proba[i] - sum) * (num_classes - 1)]

RECURSIVE adaboost_sum(_, _, _)
\* the first loop, after trees 0..i-1.  std::transform runs over the whole of
\* res and reads as many entries from the vector samme_proba returned: where
\* that vector is shorter, the read is past its end and finds g[i]
adaboost_sum(x, g, i) ==
    IF i = 0
    THEN [kind |-> "return", res |-> [c \in 0..(cppFile[2].classes - 1) |-> 0],
          probas |-> <<>>, contribs |-> <<>>]
    ELSE LET prev == adaboost_sum(x, g, i - 1)
         IN IF prev.kind # "return" THEN prev
            ELSE LET r == tree_call(i - 1, x)
                 IN IF r.kind # "return" THEN [prev EXCEPT !.kind = r.kind]
                    ELSE LET s == samme_proba(log_proba(r.v), cppFile[2].classes)
                         IN [prev EXCEPT
                               !.res = [c \in DOMAIN @ |->
                                          @[c] + (IF c < Size(s) THEN s[c] ELSE g[i - 1])],
                               !.probas = Append(@, r.v),
                               !.contribs = Append(@, s)]

\* res[i] > max, a float against an int
adaboost_greater(v, max) == (v - 1) \div Unit >= max

\* max = res[i]: the conversion of a float to int drops the fraction
adaboost_store(v) == IF v >= 0 THEN v \div Unit ELSE -((-v) \div Unit)

RECURSIVE adaboost_select(_, _, _, _, _)
\* the second loop from class i: res[i] /= number, then the comparison
adaboost_select(res, number, i, max, ans) ==
    IF i = Size(res) THEN ans
    ELSE LET v == RoundDiv(res[i], number)
         IN IF adaboost_greater(v, max)
            THEN adaboost_select(res, number, i + 1, adaboost_store(v), i)
            ELSE adaboost_select(res, number, i + 1, max, ans)

adaboost(x, g) ==
    LET number == cppFile[2].number
        s == adaboost_sum(x, g, number)
    IN IF s.kind # "return"
       THEN [outcome |-> s.kind, answer |-> -1, probas |-> s.probas,
             contribs |-> s.contribs]
       ELSE [outcome |-> "class",
             answer |-> adaboost_select(s.res, number, 0, IntMin, -1),
             probas |-> s.probas, contribs |-> s.contribs]

(***************************************************************************)
(* One call of the emitted classifier.                                     *)
(***************************************************************************)
classify_forest ==
    /\ mode = "forest"
    /\ pc = "saved"
    /\ \E x \in FeatureVectors :
         LET r == random_forest(x)
         IN /\ feature_vector' = x
            /\ votes' = r.votes
            /\ outcome' = r.outcome
            /\ answer' = r.answer
    /\ pc' = "classified"
    /\ UNCHANGED <<mode, pickle, forest, hFile, cppFile, probas, contribs>>

classify_adaboost ==
    /\ mode = "adaboost"
    /\ pc = "saved"
    /\ \E x \in FeatureVectors :
         \E g \in [0..(cppFile[2].number - 1) -> Garbage] :
           LET r == adaboost(x, g)
           IN /\ feature_vector' = x
              /\ probas' = r.probas
              /\ contribs' = r.contribs
              /\ outcome' = r.outcome
              /\ answer' = r.answer
    /\ pc' = "classified"
    /\ UNCHANGED <<mode, pickle, forest, hFile, cppFile, votes>>

Next ==
    \/ random_forest_to_cpp
    \/ adaboost_to_cpp
    \/ classify_forest
    \/ classify_adaboost

Spec == Init /\ [][Next]_vars

(***************************************************************************)
(* Reference notions the properties are stated with.  They read the trees  *)
(* as they were loaded (pickle) and never the printed text.                *)
(***************************************************************************)
NumClasses == Size(pickle[1].value[0][0])

IsSplit(tree, node) == tree.children_left[node] # -1

LongEnough(tree, x) ==
    \A n \in DOMAIN tree.feature : IsSplit(tree, n) => tree.feature[n] < Len(x)

RECURSIVE ReferenceLeaf(_, _, _)
\* the leaf the tree routes x to: left when x[f] <= t, right otherwise
ReferenceLeaf(tree, node, x) ==
    IF ~IsSplit(tree, node) THEN node
    ELSE IF x[tree.feature[node] + 1] <= tree.threshold[node]
         THEN ReferenceLeaf(tree, tree.children_left[node], x)
         ELSE ReferenceLeaf(tree, tree.children_right[node], x)

\* the lowest index holding the maximum count
LowestMax(row) ==
    CHOOSE k \in DOMAIN row :
        /\ \A j \in DOMAIN row : ~FracLess(row[k], row[j])
        /\ \A j \in DOMAIN row : j < k => FracLess(row[j], row[k])

ReferenceLabel(tree, x) == LowestMax(tree.value[ReferenceLeaf(tree, 0, x)][0])

RECURSIVE ReferenceShape(_, _, _)
\* a conditional with two arms for a node with children, one return for a leaf
ReferenceShape(tree, node, spaces) ==
    IF IsSplit(tree, node)
    THEN <<<<"if", spaces>>>>
         \o ReferenceShape(tree, tree.children_left[node], spaces + 4)
         \o <<<<"}", spaces>>, <<"else", spaces>>>>
         \o ReferenceShape(tree, tree.children_right[node], spaces + 4)
         \o <<<<"}", spaces>>>>
    ELSE <<<<"return", spaces>>>>

ShapeOf(body) == [k \in 1..Len(body) |-> <<body[k].op, body[k].sp>>]

\* the body printed for tree i (1-based position in the ensemble)
BodyOf(i) == hFile[i + 1].body

Generated == pc \in {"saved", "classified"}

\* C1: whenever the emitted random-forest classifier has run on a feature
\* vector long enough for every tree, each tree function returned the label of
\* the reference walk (left on input[f] <= t, lowest index of the maximum
\* count at the leaf reached), whatever the thresholds are.
C1_LabelIsReferenceWalk ==
    (/\ mode = "forest"
     /\ pc = "classified"
     /\ \A i \in 1..Len(pickle) : LongEnough(pickle[i], feature_vector))
    => /\ outcome = "class"
       /\ Len(votes) = Len(pickle)
       /\ \A i \in 1..Len(pickle) : votes[i] = ReferenceLabel(pickle[i], feature_vector)

RECURSIVE ScoreSum(_, _)
\* the aggregated score of class c over the first n trees
ScoreSum(c, n) == IF n = 0 THEN 0 ELSE ScoreSum(c, n - 1) + contribs[n][c]

\* C2: the emitted adaboost function returns the index of the maximum entry
\* of the aggregated score vector, the lowest such index on ties.
C2_AnswerIsArgmaxOfScores ==
    (mode = "adaboost" /\ pc = "classified" /\ outcome = "class")
    => LET n == Len(contribs)
       IN /\ answer \in 0..(NumClasses - 1)
          /\ \A c \in 0..(NumClasses - 1) : ScoreSum(c, n) <= ScoreSum(answer, n)
          /\ \A c \in 0..(NumClasses - 1) :
                c < answer => ScoreSum(c, n) < ScoreSum(answer, n)

VoteCount(c) == Cardinality({i \in 1..Len(votes) : votes[i] = c})

\* C3: the emitted random_forest function returns the class with the largest
\* number of votes, and the lowest such class on a tie.
C3_MajorityVoteLowestIndex ==
    (mode = "forest" /\ pc = "classified" /\ outcome = "class")
    => /\ Len(votes) = Len(pickle)
       /\ \A c \in 0..NumClasses : VoteCount(c) <= VoteCount(answer)
       /\ \A c \in 0..NumClasses : c < answer => VoteCount(c) < VoteCount(answer)

\* two trees vote for different classes and the lower class is returned
C3_Witness ==
    /\ mode = "forest" /\ pc = "classified" /\ outcome = "class"
    /\ votes = <<1, 0>>
    /\ answer = 0

\* C4: every prediction that is not a failure is a class index c with
\* 0 <= c < num_classes, under both policies.
C4_PredictionInRange ==
    (pc = "classified" /\ outcome = "class")
    => (0 <= answer /\ answer < NumClasses)

RECURSIVE ReturnNodes(_, _)
\* the nodes branch prints a return for, in the order it prints them
ReturnNodes(tree, node) ==
    IF tree.threshold[node] # -2
    THEN ReturnNodes(tree, tree.children_left[node])
         \o ReturnNodes(tree, tree.children_right[node])
    ELSE <<node>>

IsReturn(line) == line.op = "return"

\* C5: for every count vector normalise was applied to, the result has the
\* same length; with a positive sum each entry is count / sum, lies in [0, 1]
\* and the entries sum to 1; with a zero sum it is the unchanged zero vector.
\* The result is both what is printed and what is left in the array.
C5_NormaliseDividesBySum ==
    (mode = "adaboost" /\ Generated)
    => \A i \in 1..Len(pickle) :
         LET nodes == ReturnNodes(pickle[i], 0)
             returns == SelectSeq(BodyOf(i), IsReturn)
         IN /\ Len(returns) = Len(nodes)
            /\ \A k \in 1..Len(nodes) :
                 LET counts == pickle[i].value[nodes[k]][0]
                     out == forest[i].value[nodes[k]][0]
                     s == SumUpTo(counts, Size(counts))[1]
                 IN /\ returns[k].v = out
                    /\ DOMAIN out = DOMAIN counts
                    /\ IF s > 0
                       THEN /\ \A c \in DOMAIN out :
                                 /\ out[c][2] > 0
                                 /\ out[c][1] * s = counts[c][1] * out[c][2]
                                 /\ 0 <= out[c][1] /\ out[c][1] <= out[c][2]
                            /\ SumUpTo(out, Size(out)) = One
                       ELSE \A c \in DOMAIN out : out[c] = Zero /\ out[c] = counts[c]

\* one leaf with counts (1, 2) and one with no samples have been normalised
C5_Witness ==
    /\ mode = "adaboost" /\ pc = "saved"
    /\ Len(pickle) = 2
    /\ pickle[1].value[0][0] = [c \in Classes |-> <<c + 1, 1>>]
    /\ forest[1].value[0][0] = [c \in Classes |-> <<c + 1, 3>>]
    /\ pickle[2].value[0][0] = [c \in Classes |-> Zero]
    /\ forest[2].value[0][0] = [c \in Classes |-> Zero]

\* C6: compiling leaves every node of the source tree as it was, and
\* compiling the same trees again prints the same procedures.
C6_CompilationIsPure ==
    [][(random_forest_to_cpp \/ adaboost_to_cpp)
         => (forest' = forest /\ (pc = "saved" => hFile' = hFile))]_vars

SomeSplitOutOfRange ==
    \E i \in 1..Len(pickle) : ~LongEnough(pickle[i], feature_vector)

RECURSIVE ReachesOutOfRange(_, _, _)
\* the walk from node comes to a printed conditional on a feature x lacks
ReachesOutOfRange(tree, node, x) ==
    IF tree.threshold[node] = -2 THEN FALSE
    ELSE IF tree.feature[node] >= Len(x) THEN TRUE
         ELSE IF x[tree.feature[node] + 1] <= tree.threshold[node]
              THEN ReachesOutOfRange(tree, tree.children_left[node], x)
              ELSE ReachesOutOfRange(tree, tree.children_right[node], x)

C8_EmptyEnsembleWritesNothing ==
    Len(pickle) = 0 /\ pc # "start"
    => /\ pc = "IndexError"
       /\ hFile = <<>>
       /\ cppFile = <<>>

\* C9: each tree's contribution is (log_p[c] - mean) * (K - 1) with
\* mean = sum(log_p) / K, K the length of the tree's probability vector, and
\* its entries sum to zero (to within a thousandth).
C9_ContributionSumsToZero ==
    (mode = "adaboost" /\ pc = "classified")
    => \A i \in 1..Len(contribs) :
         LET k == Size(probas[i])
             total == Accumulate(contribs[i], Size(contribs[i]))
         IN /\ contribs[i] = samme_proba(log_proba(probas[i]), k)
            /\ -(Unit \div 1000) <= total /\ total <= Unit \div 1000

\* C10: in both generators the printed body has a conditional with two
\* non-empty arms exactly for the nodes with children and a single return
\* exactly for the leaves.
C10_ShapeFollowsChildren ==
    Generated
    => \A i \in 1..Len(pickle) :
         ShapeOf(BodyOf(i)) = ReferenceShape(pickle[i], 0, 4)

====
